---------------------------- MODULE Spec2Model ----------------------------
(***************************************************************************)
(* The Internet Room: the lease record of the single room, the operations  *)
(* of the lease manager (acquireLock, updateHeartbeat, releaseLock,        *)
(* checkStaleLocks, forceClear), the /api/leave boundary and the rate      *)
(* limiter.                                                                *)
(*                                                                         *)
(* Three specifications share the variables:                               *)
(*   Spec       the synchronous file store (server/store.js): every        *)
(*              operation is one atomic step;                              *)
(*   SpecAsync  the Supabase store (server/index.js, second half): every   *)
(*              loadState read and every saveState write is a step of its  *)
(*              own, and handlers interleave between them;                 *)
(*   SpecRL     the rate limiter and its periodic cleanup.                 *)
(***************************************************************************)
EXTENDS Integers, Sequences, FiniteSets, TLC

VARIABLES
    store,       \* the persisted lease record (room.json / the room_state row)
    now,         \* Date.now()
    nextSid,     \* index of the next session id uuidv4() hands out
    res,         \* what the last completed operation returned
    procs,       \* SpecAsync: the handlers in flight, one record per slot
    live,        \* SpecAsync: session ids holding an un-revoked success of acquireLock
    released,    \* SpecAsync: session ids whose release has completed
    cleared,     \* SpecAsync: forceClear wrote, and no acquire or release wrote since
    rateLimits,  \* SpecRL: the rateLimits Map, key -> timestamps
    admitted     \* SpecRL: per key, the times of the admitted attempts that lie
                 \* less than ENTRY_WINDOW before the latest admitted one

vars == <<store, now, nextSid, res, procs, live, released, cleared, rateLimits, admitted>>

-----------------------------------------------------------------------------
(* Configuration *)

HEARTBEAT_INTERVAL == 12000
HEARTBEAT_TIMEOUT == 30000
HARD_SESSION_TIMEOUT == 180000
STALE_CHECK_INTERVAL == 5000
MAX_TEXT_LENGTH == 500
ENTRY_WINDOW == 60000
ENTRY_MAX == 5
HEARTBEAT_MAX == 10

(* Bounds of the exploration *)

MaxSessions == 2      \* session ids uuidv4() can hand out
MaxPeriods == 6       \* Spec: the clock reaches MaxPeriods * HEARTBEAT_TIMEOUT + 2
MaxProcs == 2         \* SpecAsync: handlers in flight at once
MaxPeriodsAsync == 1  \* SpecAsync: the clock reaches MaxPeriodsAsync * HEARTBEAT_TIMEOUT + 2
MaxWindows == 1       \* SpecRL: the clock reaches MaxWindows * ENTRY_WINDOW + 2
MaxSweeps == 38      \* SpecSweeper: firings of the stale-lock timer
MaxFloodSweeps == 1   \* SpecHolder: sweep intervals in which other callers send

-----------------------------------------------------------------------------
(* JavaScript values of the content fields: a type tag and, for a string,  *)
(* its characters.                                                         *)

Undefined == [type |-> "undefined", val |-> <<>>]
JsNull == [type |-> "null", val |-> <<>>]
Str(s) == [type |-> "string", val |-> s]

\* JavaScript truthiness of such a value
Truthy(v) ==
    CASE v.type = "undefined" -> FALSE
      [] v.type = "null" -> FALSE
      [] v.type = "string" -> Len(v.val) > 0
      [] OTHER -> TRUE

\* String.prototype.slice(0, n)
Slice(s, n) == SubSeq(s, 1, IF Len(s) < n THEN Len(s) ELSE n)

\* null in a string-typed field (session_id); no client string equals it
Null == "\\null"
\* null in a timestamp field; Date.now() is never 0, and null is 0 in arithmetic
NullTs == 0

DEFAULT_STATE ==
    [current_text |-> Str(<<>>),
     current_drawing |-> JsNull,
     is_occupied |-> FALSE,
     session_id |-> Null,
     occupied_since |-> NullTs,
     last_heartbeat_at |-> NullTs]

\* { ...current, ...updates }
Merge(current, updates) ==
    [k \in DOMAIN current \cup DOMAIN updates |->
        IF k \in DOMAIN updates THEN updates[k] ELSE current[k]]

\* uuidv4(): the n-th session id
SessionIds == <<"s1", "s2", "s3", "s4">>
uuidv4(n) == SessionIds[n]

\* no content argument (releaseLock's default, content = null)
NoContent == [present |-> FALSE, text |-> Undefined, drawing |-> Undefined]

\* a text longer than MAX_TEXT_LENGTH
LongText == [i \in 1..(MAX_TEXT_LENGTH + 1) |-> "x"]

-----------------------------------------------------------------------------
(* The lease manager: the pieces both stores share, then the operations of *)
(* the synchronous store.                                                  *)

\* updateState(updates), given the record its loadState() returned
updateState(current, updates) == Merge(current, updates)

\* the updates object of acquireLock
acquireUpdates(sessionId, t) ==
    [is_occupied |-> TRUE,
     session_id |-> sessionId,
     occupied_since |-> t,
     last_heartbeat_at |-> t]

\* releaseLock's guard: only the lock holder can release, or force release
mayRelease(state, sessionId) ==
    ~(state.session_id # sessionId /\ sessionId # "FORCE")

\* the updates object of releaseLock, content fields included when given
releaseUpdates(content) ==
    LET base == [is_occupied |-> FALSE,
                 session_id |-> Null,
                 occupied_since |-> NullTs,
                 last_heartbeat_at |-> NullTs]
        withText == IF content.present /\ content.text # Undefined
                    THEN Merge(base, [current_text |-> content.text])
                    ELSE base
    IN  IF content.present /\ content.drawing # Undefined
        THEN Merge(withText, [current_drawing |-> content.drawing])
        ELSE withText

\* updateHeartbeat's guard passing for any session id while the room is Vacant
isOwnerOrVacant(state, sessionId) ==
    ~(state.session_id # sessionId) \/ ~state.is_occupied

\* updateHeartbeat's guard
isOwner(state, sessionId) == ~(state.session_id # sessionId)

\* checkStaleLocks without its hard-timeout check
staleReasonNoHard(state, t, heartbeatTimeout, hardTimeout) ==
    IF t - state.last_heartbeat_at > heartbeatTimeout
    THEN "heartbeat_timeout" ELSE "none"

\* checkStaleLocks releasing at a heartbeat age of exactly heartbeatTimeout
staleReasonNonStrict(state, t, heartbeatTimeout, hardTimeout) ==
    IF t - state.last_heartbeat_at >= heartbeatTimeout THEN "heartbeat_timeout"
    ELSE IF t - state.occupied_since > hardTimeout THEN "hard_timeout"
    ELSE "none"

\* checkStaleLocks with the hard-timeout check ahead of the heartbeat check
staleReasonHardFirst(state, t, heartbeatTimeout, hardTimeout) ==
    IF t - state.occupied_since > hardTimeout THEN "hard_timeout"
    ELSE IF t - state.last_heartbeat_at > heartbeatTimeout THEN "heartbeat_timeout"
    ELSE "none"

\* checkStaleLocks' decision on a loaded, occupied record at time t
staleReason(state, t, heartbeatTimeout, hardTimeout) ==
    IF t - state.last_heartbeat_at > heartbeatTimeout THEN "heartbeat_timeout"
    ELSE IF t - state.occupied_since > hardTimeout THEN "hard_timeout"
    ELSE "none"

\* the updates object of forceClear
clearUpdates ==
    [is_occupied |-> FALSE,
     session_id |-> Null,
     occupied_since |-> NullTs,
     last_heartbeat_at |-> NullTs,
     current_text |-> Str(<<>>),
     current_drawing |-> JsNull]

\* what an operation returns, as the model records it
Result(op, sid, success, reason) ==
    [op |-> op, sid |-> sid, success |-> success, reason |-> reason,
     content |-> NoContent]

Outcome(success, reason, state) ==
    [success |-> success, reason |-> reason, state |-> state]

\* acquireLock refreshing the holder's heartbeat when it refuses
acquireLockRefreshing(state, sessionId, t) ==
    IF state.is_occupied
    THEN Outcome(FALSE, "occupied", updateState(state, [last_heartbeat_at |-> t]))
    ELSE Outcome(TRUE, "", updateState(state, acquireUpdates(sessionId, t)))

\* store.js, the synchronous operations on the record `state` of the file
acquireLock(state, sessionId, t) ==
    IF state.is_occupied
    THEN Outcome(FALSE, "occupied", state)
    ELSE Outcome(TRUE, "", updateState(state, acquireUpdates(sessionId, t)))

releaseLock(state, sessionId, content) ==
    IF ~mayRelease(state, sessionId)
    THEN Outcome(FALSE, "not_owner", state)
    ELSE Outcome(TRUE, "", updateState(state, releaseUpdates(content)))

\* updateHeartbeat writing the time of the call to occupied_since
updateHeartbeatWrongField(state, sessionId, t) ==
    IF ~isOwner(state, sessionId)
    THEN Outcome(FALSE, "not_owner", state)
    ELSE Outcome(TRUE, "", updateState(state, [occupied_since |-> t]))

updateHeartbeat(state, sessionId, t) ==
    IF ~isOwner(state, sessionId)
    THEN Outcome(FALSE, "not_owner", state)
    ELSE Outcome(TRUE, "", updateState(state, [last_heartbeat_at |-> t]))

\* checkStaleLocks without its is_occupied check
checkStaleLocksNoVacantCheck(state, heartbeatTimeout, hardTimeout, t) ==
    LET reason == staleReason(state, t, heartbeatTimeout, hardTimeout)
    IN  IF reason = "none"
        THEN Outcome(FALSE, "", state)
        ELSE Outcome(TRUE, reason, releaseLock(state, "FORCE", NoContent).state)

checkStaleLocks(state, heartbeatTimeout, hardTimeout, t) ==
    IF ~state.is_occupied
    THEN Outcome(FALSE, "", state)
    ELSE LET reason == staleReason(state, t, heartbeatTimeout, hardTimeout)
         IN  IF reason = "none"
             THEN Outcome(FALSE, "", state)
             ELSE Outcome(TRUE, reason, releaseLock(state, "FORCE", NoContent).state)

forceClear(state) == Outcome(TRUE, "", updateState(state, clearUpdates))

\* getRoomContent(): { text, drawing } of the record read
getRoomContent(state) ==
    [present |-> TRUE, text |-> state.current_text,
     drawing |-> state.current_drawing]

\* POST /api/leave: the content handed to releaseLock
sanitizedContent(content) ==
    IF content.present
    THEN [present |-> TRUE,
          text |-> IF content.text.type = "string"
                   THEN Str(Slice(content.text.val, MAX_TEXT_LENGTH))
                   ELSE Str(<<>>),
          drawing |-> IF Truthy(content.drawing) THEN content.drawing ELSE JsNull]
    ELSE NoContent

-----------------------------------------------------------------------------
(* Inputs *)

\* the session ids a client can send: the ones handed out so far, a
\* never-issued one, and the literal the sweeper passes to force a release
ClientTokens == {uuidv4(i) : i \in 1..(nextSid - 1)} \cup {"bogus", "FORCE"}

\* the content of a leave request: absent, or an object with some fields
Payloads ==
    {NoContent} \cup
    [present : {TRUE},
     text : {Undefined, Str(<<"a">>), Str(LongText)},
     drawing : {Undefined, Str(<<"D">>)}]

\* CONFIG.ADMIN_SECRET, with ADMIN_SECRET unset in the environment
ADMIN_SECRET == "the-void-awaits"

\* the secret of an admin request: the right one or another one
Secrets == {ADMIN_SECRET, "wrong"}

\* the admin handlers' guard passing whatever the secret
authorizedAny(secret) == TRUE

\* the admin handlers' guard: secret !== CONFIG.ADMIN_SECRET answers 403
authorized(secret) == ~(secret # ADMIN_SECRET)

\* the instants the clock visits: 1 ms and 2 ms past each multiple of period,
\* so that an age is a multiple of period, or 1 ms less or more
Instants(period, periods) ==
    {k * period + j : k \in 0..periods, j \in {1, 2}}

NoResult == Result("none", Null, FALSE, "")

Idle == [op |-> "idle", pc |-> "idle", sid |-> Null, content |-> NoContent,
         t |-> NullTs, reason |-> "", current |-> DEFAULT_STATE]

\* new Map()
NoKeys == [k \in {} |-> <<>>]

Init ==
    /\ store = DEFAULT_STATE
    /\ now = 1
    /\ nextSid = 1
    /\ res = NoResult
    /\ procs = [p \in 1..MaxProcs |-> Idle]
    /\ live = {}
    /\ released = {}
    /\ cleared = FALSE
    /\ rateLimits = NoKeys
    /\ admitted = NoKeys

asyncVars == <<procs, live, released, cleared>>
rlVars == <<rateLimits, admitted>>

-----------------------------------------------------------------------------
(* Spec: the synchronous store, each operation one step *)

\* POST /api/enter -> acquireLock(uuidv4()), then getRoomContent()
AcquireLock ==
    /\ nextSid <= MaxSessions
    /\ LET sessionId == uuidv4(nextSid)
           r == acquireLock(store, sessionId, now)
       IN  /\ store' = r.state
           /\ res' = [Result("acquire", sessionId, r.success, r.reason)
                          EXCEPT !.content = IF r.success
                                             THEN getRoomContent(r.state)
                                             ELSE NoContent]
    /\ nextSid' = nextSid + 1
    /\ UNCHANGED <<now, asyncVars, rlVars>>

\* POST /api/heartbeat -> updateHeartbeat(sessionId)
UpdateHeartbeat ==
    \E sessionId \in ClientTokens :
        LET r == updateHeartbeat(store, sessionId, now)
        IN  /\ store' = r.state
            /\ res' = Result("heartbeat", sessionId, r.success, r.reason)
            /\ UNCHANGED <<now, nextSid, asyncVars, rlVars>>

\* POST /api/leave -> releaseLock(sessionId, sanitizedContent)
Leave ==
    \E sessionId \in ClientTokens, content \in Payloads :
        LET r == releaseLock(store, sessionId, sanitizedContent(content))
        IN  /\ store' = r.state
            /\ res' = [Result("leave", sessionId, r.success, r.reason)
                           EXCEPT !.content = IF r.success THEN content
                                                             ELSE NoContent]
            /\ UNCHANGED <<now, nextSid, asyncVars, rlVars>>

\* the stale-lock setInterval -> checkStaleLocks(HEARTBEAT_TIMEOUT, HARD_SESSION_TIMEOUT)
CheckStaleLocks ==
    LET r == checkStaleLocks(store, HEARTBEAT_TIMEOUT, HARD_SESSION_TIMEOUT, now)
    IN  /\ store' = r.state
        /\ res' = Result("sweep", "FORCE", r.success, r.reason)
        /\ UNCHANGED <<now, nextSid, asyncVars, rlVars>>

\* POST /api/admin/clear: 403 unless the secret matches, else forceClear()
ForceClear ==
    \E secret \in Secrets :
        /\ IF ~authorized(secret)
           THEN /\ store' = store
                /\ res' = Result("clear", secret, FALSE, "Forbidden")
           ELSE LET r == forceClear(store)
                IN  /\ store' = r.state
                    /\ res' = Result("clear", secret, r.success, r.reason)
        /\ UNCHANGED <<now, nextSid, asyncVars, rlVars>>

\* time passes
Tick(instants) ==
    /\ \E t \in instants : t > now /\ now' = t
    /\ res' = Result("tick", Null, FALSE, "")
    /\ UNCHANGED <<store, nextSid, asyncVars, rlVars>>

TickLease == Tick(Instants(HEARTBEAT_TIMEOUT, MaxPeriods))

Next ==
    \/ AcquireLock
    \/ UpdateHeartbeat
    \/ Leave
    \/ CheckStaleLocks
    \/ ForceClear
    \/ TickLease

Spec == Init /\ [][Next]_vars

-----------------------------------------------------------------------------
(* SpecAsync: the Supabase store.  A handler runs from one await to the     *)
(* next in one step: the row is read (or written) and the code up to the   *)
(* next store call runs.  procs[p].pc names the store call a handler is    *)
(* waiting for: "release_load" (releaseLock's loadState), "update_load"    *)
(* (updateState's loadState), "save" (updateState's saveState) or          *)
(* "content_load" (getRoomContent's loadState in POST /api/enter).         *)

\* loadState(): the row as the handlers see it
loadState(row) ==
    [current_text |-> IF Truthy(row.current_text) THEN row.current_text
                      ELSE Str(<<>>),
     current_drawing |-> IF Truthy(row.current_drawing) THEN row.current_drawing
                         ELSE JsNull,
     is_occupied |-> row.is_occupied,
     session_id |-> IF row.session_id = "" THEN Null ELSE row.session_id,
     occupied_since |-> row.occupied_since,
     last_heartbeat_at |-> row.last_heartbeat_at]

\* the session ids clients can send: the ones generated so far, but for those
\* of the POST /api/enter requests that have not responded yet
IssuedTokens ==
    {uuidv4(i) : i \in 1..(nextSid - 1)} \
        {procs[p].sid : p \in {q \in 1..MaxProcs : procs[q].op = "acquire"}}

AsyncPayloads == {NoContent, [present |-> TRUE, text |-> Str(<<"a">>), drawing |-> Undefined]}

Returns(r) == res' = r
NoReturn == res' = NoResult

\* a handler that has passed its guard and now calls updateState(updates)
Calling(op, pc, sid, content, t, reason) ==
    [op |-> op, pc |-> pc, sid |-> sid, content |-> content, t |-> t,
     reason |-> reason, current |-> DEFAULT_STATE]

\* the updates object a handler passes to updateState
updatesOf(proc) ==
    CASE proc.op = "acquire" -> acquireUpdates(proc.sid, proc.t)
      [] proc.op = "heartbeat" -> [last_heartbeat_at |-> proc.t]
      [] proc.op = "leave" -> releaseUpdates(proc.content)
      [] proc.op = "sweep" -> releaseUpdates(NoContent)
      [] proc.op = "clear" -> clearUpdates

\* acquireLock: loadState, the occupied check, Date.now()
AsyncAcquireLoad(p) ==
    /\ procs[p].pc = "idle"
    /\ nextSid <= MaxSessions
    /\ nextSid' = nextSid + 1
    /\ LET state == loadState(store)
           sessionId == uuidv4(nextSid)
       IN  IF state.is_occupied
           THEN /\ Returns(Result("acquire", sessionId, FALSE, "occupied"))
                /\ UNCHANGED procs
           ELSE /\ NoReturn
                /\ procs' = [procs EXCEPT ![p] =
                       Calling("acquire", "update_load", sessionId, NoContent, now, "")]
    /\ UNCHANGED <<store, now, live, released, cleared, rlVars>>

\* updateHeartbeat: loadState, the owner check, Date.now()
AsyncHeartbeatLoad(p) ==
    /\ procs[p].pc = "idle"
    /\ \E sessionId \in IssuedTokens :
        LET state == loadState(store)
        IN  IF ~isOwner(state, sessionId)
            THEN /\ Returns(Result("heartbeat", sessionId, FALSE, "not_owner"))
                 /\ UNCHANGED procs
            ELSE /\ NoReturn
                 /\ procs' = [procs EXCEPT ![p] =
                        Calling("heartbeat", "update_load", sessionId, NoContent, now, "")]
    /\ UNCHANGED <<store, now, nextSid, live, released, cleared, rlVars>>

\* POST /api/leave -> releaseLock: loadState, the owner check
AsyncLeaveLoad(p) ==
    /\ procs[p].pc = "idle"
    /\ \E sessionId \in IssuedTokens, content \in AsyncPayloads :
        LET state == loadState(store)
        IN  IF ~mayRelease(state, sessionId)
            THEN /\ Returns(Result("leave", sessionId, FALSE, "not_owner"))
                 /\ UNCHANGED procs
            ELSE /\ NoReturn
                 /\ procs' = [procs EXCEPT ![p] =
                        Calling("leave", "update_load", sessionId,
                                sanitizedContent(content), NullTs, "")]
    /\ UNCHANGED <<store, now, nextSid, live, released, cleared, rlVars>>

\* checkStaleLocks: loadState, the two age checks, then releaseLock('FORCE')
AsyncSweepLoad(p) ==
    /\ procs[p].pc = "idle"
    /\ LET state == loadState(store)
           reason == staleReason(state, now, HEARTBEAT_TIMEOUT, HARD_SESSION_TIMEOUT)
       IN  IF ~state.is_occupied \/ reason = "none"
           THEN /\ Returns(Result("sweep", "FORCE", FALSE, ""))
                /\ UNCHANGED procs
           ELSE /\ NoReturn
                /\ procs' = [procs EXCEPT ![p] =
                       Calling("sweep", "release_load", "FORCE", NoContent, now, reason)]
    /\ UNCHANGED <<store, now, nextSid, live, released, cleared, rlVars>>

\* releaseLock('FORCE') called by the sweep: loadState, the guard
AsyncReleaseLoad(p) ==
    /\ procs[p].pc = "release_load"
    /\ IF ~mayRelease(loadState(store), procs[p].sid)
       THEN /\ procs' = [procs EXCEPT ![p] = Idle]
            /\ Returns(Result(procs[p].op, procs[p].sid, TRUE, procs[p].reason))
       ELSE /\ procs' = [procs EXCEPT ![p].pc = "update_load"]
            /\ NoReturn
    /\ UNCHANGED <<store, now, nextSid, live, released, cleared, rlVars>>

\* forceClear -> updateState: loadState
AsyncClearLoad(p) ==
    /\ procs[p].pc = "idle"
    /\ procs' = [procs EXCEPT ![p] =
           [Calling("clear", "save", Null, NoContent, NullTs, "")
               EXCEPT !.current = loadState(store)]]
    /\ NoReturn
    /\ UNCHANGED <<store, now, nextSid, live, released, cleared, rlVars>>

\* updateState: const current = await loadState()
AsyncUpdateLoad(p) ==
    /\ procs[p].pc = "update_load"
    /\ procs' = [procs EXCEPT ![p].current = loadState(store), ![p].pc = "save"]
    /\ NoReturn
    /\ UNCHANGED <<store, now, nextSid, live, released, cleared, rlVars>>

\* updateState: await saveState({ ...current, ...updates }), and the store
\* function returns; POST /api/enter goes on to getRoomContent()
AsyncSave(p) ==
    LET proc == procs[p]
        vacated == IF store.session_id = Null THEN {} ELSE {store.session_id}
    IN  /\ proc.pc = "save"
        /\ store' = updateState(proc.current, updatesOf(proc))
        /\ IF proc.op = "acquire"
           THEN /\ procs' = [procs EXCEPT ![p].pc = "content_load"]
                /\ NoReturn
           ELSE /\ procs' = [procs EXCEPT ![p] = Idle]
                /\ Returns([Result(proc.op, proc.sid, TRUE, proc.reason)
                               EXCEPT !.content = proc.content])
        /\ live' = CASE proc.op = "acquire" -> live \cup {proc.sid}
                     [] proc.op = "heartbeat" -> live
                     [] OTHER -> {}
        /\ released' = CASE proc.op \in {"acquire", "heartbeat"} -> released
                         [] proc.op = "leave" -> released \cup {proc.sid} \cup vacated
                         [] OTHER -> released \cup vacated
        /\ cleared' = CASE proc.op = "clear" -> TRUE
                        [] proc.op = "heartbeat" -> cleared
                        [] OTHER -> FALSE
        /\ UNCHANGED <<now, nextSid, rlVars>>

\* POST /api/enter: const content = await getRoomContent(), and the response
AsyncContentLoad(p) ==
    /\ procs[p].pc = "content_load"
    /\ procs' = [procs EXCEPT ![p] = Idle]
    /\ Returns([Result(procs[p].op, procs[p].sid, TRUE, "")
                   EXCEPT !.content = getRoomContent(loadState(store))])
    /\ UNCHANGED <<store, now, nextSid, live, released, cleared, rlVars>>

TickAsync == Tick(Instants(HEARTBEAT_TIMEOUT, MaxPeriodsAsync))

NextAsync ==
    \/ \E p \in 1..MaxProcs :
          \/ AsyncAcquireLoad(p)
          \/ AsyncHeartbeatLoad(p)
          \/ AsyncLeaveLoad(p)
          \/ AsyncSweepLoad(p)
          \/ AsyncReleaseLoad(p)
          \/ AsyncClearLoad(p)
          \/ AsyncUpdateLoad(p)
          \/ AsyncSave(p)
          \/ AsyncContentLoad(p)
    \/ TickAsync

SpecAsync == Init /\ [][NextAsync]_vars

-----------------------------------------------------------------------------
(* SpecSweeper: the Supabase store with the stale-lock timer.  The clock   *)
(* advances from one firing of the setInterval callback to the next, and   *)
(* every firing runs checkStaleLocks; the handlers in flight complete      *)
(* between two firings.                                                    *)

\* the time of the next firing after t
nextSweepAt(t) == (t \div STALE_CHECK_INTERVAL + 1) * STALE_CHECK_INTERVAL

\* the last firing the clock reaches
LastSweepAt == MaxSweeps * STALE_CHECK_INTERVAL

\* POST /api/enter, early enough for the session's hard timeout and the two
\* firings after it to fall before the last firing
SweeperAcquireLoad(p) ==
    /\ now + HARD_SESSION_TIMEOUT + 2 * STALE_CHECK_INTERVAL <= LastSweepAt + 1
    /\ AsyncAcquireLoad(p)

\* the setInterval callback fires: checkStaleLocks does its loadState and its
\* two age checks, then calls releaseLock('FORCE')
TimerSweep(p) ==
    /\ \A q \in 1..MaxProcs : procs[q].pc = "idle"
    /\ nextSweepAt(now) <= LastSweepAt
    /\ now' = nextSweepAt(now)
    /\ LET state == loadState(store)
           reason == staleReason(state, now', HEARTBEAT_TIMEOUT, HARD_SESSION_TIMEOUT)
       IN  IF ~state.is_occupied \/ reason = "none"
           THEN /\ Returns(Result("sweep", "FORCE", FALSE, ""))
                /\ UNCHANGED procs
           ELSE /\ NoReturn
                /\ procs' = [procs EXCEPT ![p] =
                       Calling("sweep", "release_load", "FORCE", NoContent, now', reason)]
    /\ UNCHANGED <<store, nextSid, live, released, cleared, rlVars>>

NextSweeper ==
    \E p \in 1..MaxProcs :
        \/ SweeperAcquireLoad(p)
        \/ AsyncHeartbeatLoad(p)
        \/ AsyncReleaseLoad(p)
        \/ AsyncUpdateLoad(p)
        \/ AsyncSave(p)
        \/ AsyncContentLoad(p)
        \/ TimerSweep(p)

\* the timer keeps firing, and a handler in flight completes
SpecSweeper ==
    /\ Init
    /\ [][NextSweeper]_vars
    /\ \A p \in 1..MaxProcs :
          /\ WF_vars(TimerSweep(p))
          /\ WF_vars(AsyncReleaseLoad(p) \/ AsyncUpdateLoad(p) \/ AsyncSave(p)
                        \/ AsyncContentLoad(p))

-----------------------------------------------------------------------------
(* SpecOutage: the file store when the file cannot always be read or       *)
(* written.  Each loadState and saveState call of an operation succeeds or *)
(* fails on its own; the operation is still one step.                      *)

\* loadState(): the record in the file, or DEFAULT_STATE when the read or
\* the parse throws
loadStateFile(file, readable) == IF readable THEN file ELSE DEFAULT_STATE

\* saveState(state): the file afterwards; a failed write is logged and dropped
saveState(file, state, writable) == IF writable THEN state ELSE file

\* updateState(updates): loadState, merge, saveState
updateStateFile(file, updates, readable, writable) ==
    saveState(file, Merge(loadStateFile(file, readable), updates), writable)

\* acquireLock(sessionId): io = <<its loadState, updateState's loadState,
\* updateState's saveState>>
acquireLockFile(file, sessionId, t, io) ==
    IF loadStateFile(file, io[1]).is_occupied
    THEN Outcome(FALSE, "occupied", file)
    ELSE Outcome(TRUE, "",
             updateStateFile(file, acquireUpdates(sessionId, t), io[2], io[3]))

\* updateHeartbeat(sessionId) with the same three calls
updateHeartbeatFile(file, sessionId, t, io) ==
    IF ~isOwner(loadStateFile(file, io[1]), sessionId)
    THEN Outcome(FALSE, "not_owner", file)
    ELSE Outcome(TRUE, "",
             updateStateFile(file, [last_heartbeat_at |-> t], io[2], io[3]))

\* releaseLock(sessionId, content) with the same three calls
releaseLockFile(file, sessionId, content, io) ==
    IF ~mayRelease(loadStateFile(file, io[1]), sessionId)
    THEN Outcome(FALSE, "not_owner", file)
    ELSE Outcome(TRUE, "",
             updateStateFile(file, releaseUpdates(content), io[2], io[3]))

\* which of an operation's store calls succeed
IoOutcomes == [1..3 -> BOOLEAN]

\* POST /api/enter -> acquireLock(uuidv4()), then getRoomContent()
EnterOutage ==
    /\ nextSid <= MaxSessions
    /\ \E io \in IoOutcomes, readable \in BOOLEAN :
        LET sessionId == uuidv4(nextSid)
            r == acquireLockFile(store, sessionId, now, io)
        IN  /\ store' = r.state
            /\ res' = [Result("acquire", sessionId, r.success, r.reason)
                           EXCEPT !.content =
                               IF r.success
                               THEN getRoomContent(loadStateFile(r.state, readable))
                               ELSE NoContent]
    /\ nextSid' = nextSid + 1
    /\ UNCHANGED <<now, asyncVars, rlVars>>

\* POST /api/heartbeat -> updateHeartbeat(sessionId)
HeartbeatOutage ==
    \E sessionId \in ClientTokens, io \in IoOutcomes :
        LET r == updateHeartbeatFile(store, sessionId, now, io)
        IN  /\ store' = r.state
            /\ res' = Result("heartbeat", sessionId, r.success, r.reason)
            /\ UNCHANGED <<now, nextSid, asyncVars, rlVars>>

\* POST /api/leave -> releaseLock(sessionId, sanitizedContent)
LeaveOutage ==
    \E sessionId \in ClientTokens, content \in AsyncPayloads, io \in IoOutcomes :
        LET r == releaseLockFile(store, sessionId, sanitizedContent(content), io)
        IN  /\ store' = r.state
            /\ res' = [Result("leave", sessionId, r.success, r.reason)
                           EXCEPT !.content = IF r.success THEN content
                                                             ELSE NoContent]
            /\ UNCHANGED <<now, nextSid, asyncVars, rlVars>>

NextOutage ==
    \/ EnterOutage
    \/ HeartbeatOutage
    \/ LeaveOutage
    \/ TickAsync

SpecOutage == Init /\ [][NextOutage]_vars

-----------------------------------------------------------------------------
(* SpecManager: the functions store.js exports, called as they are         *)
(* exported: releaseLock gets the caller's content object as it is, with   *)
(* no POST /api/leave in front of it.                                      *)

\* a content object as a caller of releaseLock can pass it
RawContents ==
    {NoContent} \cup
    [present : {TRUE},
     text : {Undefined, Str(<<"a">>), Str(LongText)},
     drawing : {Undefined, JsNull, Str(<<"D">>)}]

\* acquireLock(sessionId)
ManagerAcquireLock ==
    /\ nextSid <= MaxSessions
    /\ LET sessionId == uuidv4(nextSid)
           r == acquireLock(store, sessionId, now)
       IN  /\ store' = r.state
           /\ res' = Result("acquire", sessionId, r.success, r.reason)
    /\ nextSid' = nextSid + 1
    /\ UNCHANGED <<now, asyncVars, rlVars>>

\* updateHeartbeat(sessionId)
ManagerUpdateHeartbeat ==
    \E sessionId \in ClientTokens :
        LET r == updateHeartbeat(store, sessionId, now)
        IN  /\ store' = r.state
            /\ res' = Result("heartbeat", sessionId, r.success, r.reason)
            /\ UNCHANGED <<now, nextSid, asyncVars, rlVars>>

\* releaseLock(sessionId, content)
ManagerReleaseLock ==
    \E sessionId \in ClientTokens, content \in RawContents :
        LET r == releaseLock(store, sessionId, content)
        IN  /\ store' = r.state
            /\ res' = [Result("release", sessionId, r.success, r.reason)
                           EXCEPT !.content = IF r.success THEN content
                                                             ELSE NoContent]
            /\ UNCHANGED <<now, nextSid, asyncVars, rlVars>>

NextManager ==
    \/ ManagerAcquireLock
    \/ ManagerUpdateHeartbeat
    \/ ManagerReleaseLock
    \/ TickAsync

SpecManager == Init /\ [][NextManager]_vars

-----------------------------------------------------------------------------
(* SpecRL: the rate limiter.  rateLimit is synchronous: one step. *)

Ips == {"ip1"}
Actions == {"entry", "heartbeat"}

\* a key that leaves the action class out
KeyOfIp(ip, action) == <<ip, "entry">>

\* `${ip}:${action}`
KeyOf(ip, action) == <<ip, action>>

\* Map.set(key, value)
MapSet(m, key, value) ==
    [k \in DOMAIN m \cup {key} |-> IF k = key THEN value ELSE m[k]]

\* Map.delete(key)
MapDelete(m, key) == [k \in DOMAIN m \ {key} |-> m[k]]

\* the filter keeping a timestamp exactly ENTRY_WINDOW old
FreshInclusive(timestamps, t) ==
    SelectSeq(timestamps, LAMBDA x : t - x <= ENTRY_WINDOW)

\* timestamps.filter(t => now - t < RATE_LIMIT.ENTRY_WINDOW)
Fresh(timestamps, t) ==
    SelectSeq(timestamps, LAMBDA x : t - x < ENTRY_WINDOW)

maxAllowed(action) == IF action = "entry" THEN ENTRY_MAX ELSE HEARTBEAT_MAX

\* a limiter that records the rejected attempts too
rateLimitRecordingAll(m, ip, action, t) ==
    LET key == KeyOf(ip, action)
        m1 == IF key \notin DOMAIN m THEN MapSet(m, key, <<>>) ELSE m
        timestamps == Fresh(m1[key], t)
    IN  [admit |-> Len(timestamps) < maxAllowed(action),
         map |-> MapSet(m1, key, Append(timestamps, t))]

\* rateLimit(ip, action) at time t on the Map m: the answer and the Map after
rateLimit(m, ip, action, t) ==
    LET key == KeyOf(ip, action)
        m1 == IF key \notin DOMAIN m THEN MapSet(m, key, <<>>) ELSE m
        timestamps == Fresh(m1[key], t)
    IN  IF Len(timestamps) >= maxAllowed(action)
        THEN [admit |-> FALSE, map |-> m1]
        ELSE [admit |-> TRUE, map |-> MapSet(m1, key, Append(timestamps, t))]

\* the cleanup setInterval's callback at time t
RECURSIVE cleanupKeys(_, _, _)
cleanupKeys(m, keys, t) ==
    IF keys = {} THEN m
    ELSE LET key == CHOOSE k \in keys : TRUE
             valid == Fresh(m[key], t)
             m1 == IF Len(valid) = 0 THEN MapDelete(m, key)
                   ELSE MapSet(m, key, valid)
         IN  cleanupKeys(m1, keys \ {key}, t)

\* a cleanup that empties the Map
cleanupAll(m, t) == NoKeys

cleanup(m, t) == cleanupKeys(m, DOMAIN m, t)

\* the admitted attempts of a log made less than ENTRY_WINDOW before time t
InWindow(log, t) == SelectSeq(log, LAMBDA x : x > t - ENTRY_WINDOW)

\* one request reaches rateLimit
RateLimit ==
    \E ip \in Ips, action \in Actions :
        LET key == KeyOf(ip, action)
            r == rateLimit(rateLimits, ip, action, now)
            log == IF key \in DOMAIN admitted THEN admitted[key] ELSE <<>>
        IN  /\ rateLimits' = r.map
            /\ admitted' = IF r.admit
                           THEN MapSet(admitted, key, Append(InWindow(log, now), now))
                           ELSE admitted
            /\ res' = Result("rateLimit", ip, r.admit, action)
            /\ UNCHANGED <<store, now, nextSid, asyncVars>>

\* the periodic cleanup runs
Cleanup ==
    /\ rateLimits' = cleanup(rateLimits, now)
    /\ res' = Result("cleanup", Null, FALSE, "")
    /\ UNCHANGED <<store, now, nextSid, asyncVars, admitted>>

TickRL == Tick(Instants(ENTRY_WINDOW, MaxWindows))

NextRL ==
    \/ RateLimit
    \/ Cleanup
    \/ TickRL

SpecRL == Init /\ [][NextRL]_vars

-----------------------------------------------------------------------------
(* SpecKeys: requests of two client addresses reach rateLimit *)

KeyIps == {"ip1", "ip2"}

\* one request of one of the addresses reaches rateLimit
RateLimitKeyed ==
    \E ip \in KeyIps, action \in Actions :
        LET key == KeyOf(ip, action)
            r == rateLimit(rateLimits, ip, action, now)
            log == IF key \in DOMAIN admitted THEN admitted[key] ELSE <<>>
        IN  /\ rateLimits' = r.map
            /\ admitted' = IF r.admit
                           THEN MapSet(admitted, key, Append(InWindow(log, now), now))
                           ELSE admitted
            /\ res' = Result("rateLimit", ip, r.admit, action)
            /\ UNCHANGED <<store, now, nextSid, asyncVars>>

TickKeys == Tick({k * ENTRY_WINDOW + 1 : k \in 0..MaxWindows})

NextKeys ==
    \/ RateLimitKeyed
    \/ TickKeys

SpecKeys == Init /\ [][NextKeys]_vars

-----------------------------------------------------------------------------
(* SpecApi: the handlers of POST /api/enter, /api/heartbeat and /api/leave *)
(* as a whole, on the file store: the session id check, the rate limiter,  *)
(* the store call and the response.  res.reason is the response: "400",    *)
(* "429", or what the handler answers after the store call.                *)

\* the session id of a request: one handed out, another one, none (null or
\* absent), the empty string
ApiTokens == {uuidv4(i) : i \in 1..(nextSid - 1)} \cup {"bogus", Null, ""}

\* the guard that never answers 400
missingNever(sessionId) == FALSE

\* !sessionId
missing(sessionId) == sessionId \in {Null, ""}

\* POST /api/enter: rateLimit(ip, 'entry'), acquireLock(uuidv4()),
\* getRoomContent().  The id of a refused enter is never sent to anyone: the
\* next enter gets the same one.
ApiEnter ==
    \E ip \in Ips :
        LET limit == rateLimit(rateLimits, ip, "entry", now)
            sessionId == uuidv4(nextSid)
            r == acquireLock(store, sessionId, now)
        IN  /\ rateLimits' = limit.map
            /\ IF ~limit.admit
               THEN /\ res' = Result("acquire", Null, FALSE, "429")
                    /\ UNCHANGED <<store, nextSid>>
               ELSE /\ r.success => nextSid <= MaxSessions
                    /\ store' = r.state
                    /\ nextSid' = IF r.success THEN nextSid + 1 ELSE nextSid
                    /\ res' = [Result("acquire", sessionId, r.success,
                                      IF r.success THEN "" ELSE "occupied")
                                  EXCEPT !.content = IF r.success
                                                     THEN getRoomContent(r.state)
                                                     ELSE NoContent]
            /\ UNCHANGED <<now, asyncVars, admitted>>

\* POST /api/heartbeat at time t: the session id check, rateLimit(ip,
\* 'heartbeat'), updateHeartbeat(sessionId); the record and the Map
\* afterwards, and the response
postHeartbeat(state, m, ip, sessionId, t) ==
    LET limit == rateLimit(m, ip, "heartbeat", t)
        r == updateHeartbeat(state, sessionId, t)
    IN  IF missing(sessionId)
        THEN [state |-> state, map |-> m, success |-> FALSE, reason |-> "400"]
        ELSE IF ~limit.admit
        THEN [state |-> state, map |-> limit.map, success |-> FALSE,
              reason |-> "429"]
        ELSE [state |-> r.state, map |-> limit.map, success |-> r.success,
              reason |-> IF r.success THEN "" ELSE "terminated"]

ApiHeartbeat ==
    \E ip \in Ips, sessionId \in ApiTokens :
        LET r == postHeartbeat(store, rateLimits, ip, sessionId, now)
        IN  /\ store' = r.state
            /\ rateLimits' = r.map
            /\ res' = Result("heartbeat", sessionId, r.success, r.reason)
            /\ UNCHANGED <<now, nextSid, asyncVars, admitted>>

\* POST /api/leave: the session id check, releaseLock(sessionId, sanitizedContent)
ApiLeave ==
    \E sessionId \in ApiTokens, content \in AsyncPayloads :
        LET r == releaseLock(store, sessionId, sanitizedContent(content))
        IN  /\ IF missing(sessionId)
               THEN /\ res' = Result("leave", sessionId, FALSE, "400")
                    /\ UNCHANGED store
               ELSE /\ res' = [Result("leave", sessionId, r.success, r.reason)
                                  EXCEPT !.content = IF r.success THEN content
                                                                    ELSE NoContent]
                    /\ store' = r.state
            /\ UNCHANGED <<now, nextSid, asyncVars, rlVars>>

\* time passes: the clock visits 1 ms past each multiple of ENTRY_WINDOW
TickApi == Tick({k * ENTRY_WINDOW + 1 : k \in 0..MaxWindows})

NextApi ==
    \/ ApiEnter
    \/ ApiHeartbeat
    \/ ApiLeave
    \/ TickApi

SpecApi == Init /\ [][NextApi]_vars

-----------------------------------------------------------------------------
(* Properties of the synchronous store (Spec) *)

Vacant(state) ==
    /\ ~state.is_occupied
    /\ state.session_id = Null
    /\ state.occupied_since = NullTs
    /\ state.last_heartbeat_at = NullTs

\* C2 (token scoping): a heartbeat or leave with session id s succeeds only if
\* s is the record's session_id before the call; otherwise it returns
\* not_owner and leaves the whole record unchanged.
C2_TokenScoping ==
    [][res'.op \in {"heartbeat", "leave"} =>
          /\ res'.success => res'.sid = store.session_id
          /\ res'.sid # store.session_id =>
                /\ ~res'.success
                /\ res'.reason = "not_owner"
                /\ store' = store]_vars

\* C6 (field-wise overwrite on leave): after a successful leave of the holder
\* that carries a content object, a field that is present overwrites the
\* stored field and a field that is omitted leaves the stored field as it was.
C6_FieldwiseOverwrite ==
    [][(/\ res'.op = "leave"
        /\ res'.success
        /\ store.is_occupied
        /\ res'.sid = store.session_id
        /\ res'.content.present) =>
          /\ res'.content.text = Undefined =>
                store'.current_text = store.current_text
          /\ res'.content.text.type = "string" =>
                store'.current_text =
                    Str(Slice(res'.content.text.val, MAX_TEXT_LENGTH))
          /\ res'.content.drawing = Undefined =>
                store'.current_drawing = store.current_drawing
          /\ res'.content.drawing # Undefined =>
                store'.current_drawing = res'.content.drawing]_vars

\* C7 (hard ceiling): a sweep at a time when the session is older than
\* HARD_SESSION_TIMEOUT, the holder's last heartbeat being no older than
\* HEARTBEAT_TIMEOUT, returns released with reason hard_timeout and leaves
\* the record Vacant.
C7_HardCeiling ==
    [][(/\ res'.op = "sweep"
        /\ store.is_occupied
        /\ now - store.last_heartbeat_at <= HEARTBEAT_TIMEOUT
        /\ now - store.occupied_since > HARD_SESSION_TIMEOUT) =>
          /\ res'.success
          /\ res'.reason = "hard_timeout"
          /\ Vacant(store')]_vars

\* a sweep 1 ms past the ceiling has evicted a holder whose heartbeat was fresh
C7_Witness ==
    /\ res.op = "sweep"
    /\ res.success
    /\ res.reason = "hard_timeout"
    /\ now = HARD_SESSION_TIMEOUT + 2
    /\ Vacant(store)

\* C8 (heartbeat expiry, strict threshold): a sweep of an Occupied lease
\* releases with reason heartbeat_timeout when the heartbeat age exceeds
\* HEARTBEAT_TIMEOUT, whatever the session age; it releases nothing and
\* changes nothing when the heartbeat age is at most HEARTBEAT_TIMEOUT and
\* the session age at most HARD_SESSION_TIMEOUT.
C8_HeartbeatExpiry ==
    [][(res'.op = "sweep" /\ store.is_occupied) =>
          /\ now - store.last_heartbeat_at > HEARTBEAT_TIMEOUT =>
                /\ res'.success
                /\ res'.reason = "heartbeat_timeout"
                /\ Vacant(store')
          /\ (/\ now - store.last_heartbeat_at <= HEARTBEAT_TIMEOUT
              /\ now - store.occupied_since <= HARD_SESSION_TIMEOUT) =>
                /\ ~res'.success
                /\ store' = store]_vars

\* a sweep 30001 ms after the acquire at 1, with no heartbeat, has released
C8_Witness ==
    /\ res.op = "sweep"
    /\ res.success
    /\ res.reason = "heartbeat_timeout"
    /\ now = HEARTBEAT_TIMEOUT + 2
    /\ Vacant(store)

\* C14 (invariant I4): while the lease is Occupied, occupied_since is at
\* most last_heartbeat_at; a successful acquire sets both to the time of the
\* call, a successful heartbeat never moves last_heartbeat_at back, and no
\* step changes occupied_since while the same session keeps the lease.
C14_InvariantI4 ==
    /\ [](store.is_occupied => store.occupied_since <= store.last_heartbeat_at)
    /\ [][(res'.op = "acquire" /\ res'.success) =>
            /\ store'.occupied_since = now
            /\ store'.last_heartbeat_at = now]_vars
    /\ [][(res'.op = "heartbeat" /\ res'.success) =>
            store'.last_heartbeat_at >= store.last_heartbeat_at]_vars
    /\ [][(/\ store.is_occupied
           /\ store'.is_occupied
           /\ store'.session_id = store.session_id) =>
              store'.occupied_since = store.occupied_since]_vars

\* the session that acquired at 1 has had a heartbeat accepted at 30001
C14_Witness ==
    /\ res.op = "heartbeat"
    /\ res.success
    /\ store.is_occupied
    /\ store.occupied_since = 1
    /\ store.last_heartbeat_at = HEARTBEAT_TIMEOUT + 1

\* C16 (admin clear guarded by the credential): a POST /api/admin/clear
\* whose secret differs from ADMIN_SECRET is answered Forbidden and leaves
\* the whole record as it was; one with the matching secret succeeds and
\* leaves the record Vacant with empty text and no drawing.
C16_AdminClearGuarded ==
    [][res'.op = "clear" =>
          IF res'.sid = ADMIN_SECRET
          THEN /\ res'.success
               /\ store' = DEFAULT_STATE
          ELSE /\ ~res'.success
               /\ res'.reason = "Forbidden"
               /\ store' = store]_vars

\* a clear with a wrong secret was refused while a session held the lease
\* and content was stored
C16_Witness ==
    /\ res.op = "clear"
    /\ res.sid = "wrong"
    /\ ~res.success
    /\ store.is_occupied
    /\ store.current_text = Str(<<"a">>)

\* C17 (sweep precedence): a sweep that finds both the heartbeat age above
\* HEARTBEAT_TIMEOUT and the session age above HARD_SESSION_TIMEOUT reports
\* heartbeat_timeout; it reports hard_timeout only when the session age is
\* above its threshold and the heartbeat age is not; and a sweep that
\* releases performs the one forced release: the record is the one before
\* with the four lease fields reset.
C17_SweepPrecedence ==
    [][res'.op = "sweep" =>
          /\ (/\ store.is_occupied
              /\ now - store.last_heartbeat_at > HEARTBEAT_TIMEOUT
              /\ now - store.occupied_since > HARD_SESSION_TIMEOUT) =>
                 (res'.success /\ res'.reason = "heartbeat_timeout")
          /\ res'.reason = "hard_timeout" =>
                 /\ store.is_occupied
                 /\ now - store.occupied_since > HARD_SESSION_TIMEOUT
                 /\ now - store.last_heartbeat_at <= HEARTBEAT_TIMEOUT
          /\ res'.success =>
                 store' = updateState(store, releaseUpdates(NoContent))]_vars

\* the clock has moved to 180002 with the holder, acquired at 1, last heard
\* more than HEARTBEAT_TIMEOUT ago: the record the next sweep finds has both
\* thresholds exceeded
C17_Witness ==
    /\ res.op = "tick"
    /\ store.is_occupied
    /\ now = HARD_SESSION_TIMEOUT + 2
    /\ now - store.occupied_since > HARD_SESSION_TIMEOUT
    /\ now - store.last_heartbeat_at > HEARTBEAT_TIMEOUT

\* C18 (sweep is a no-op when nothing has expired): a sweep of a Vacant
\* record, or of an Occupied one with neither threshold exceeded, returns
\* released:false and leaves the whole record as it was; and a sweep right
\* after a sweep that released nothing releases nothing and changes nothing.
C18_SweepNoOp ==
    /\ [][(/\ res'.op = "sweep"
           /\ \/ ~store.is_occupied
              \/ /\ now - store.last_heartbeat_at <= HEARTBEAT_TIMEOUT
                 /\ now - store.occupied_since <= HARD_SESSION_TIMEOUT) =>
              /\ ~res'.success
              /\ res'.reason = ""
              /\ store' = store]_vars
    /\ [][(res.op = "sweep" /\ ~res.success /\ res'.op = "sweep") =>
              /\ res' = res
              /\ store' = store]_vars

\* a sweep at 180002 of a Vacant record holding a text has released nothing
C18_Witness ==
    /\ res.op = "sweep"
    /\ ~res.success
    /\ Vacant(store)
    /\ store.current_text = Str(<<"a">>)
    /\ now = HARD_SESSION_TIMEOUT + 2

\* C19 (acquire transition on the file store): acquireLock(s) succeeds iff
\* the record is Vacant at the call; on success the record becomes Occupied
\* by s with occupied_since and last_heartbeat_at the time of the call and
\* the content as it was; on failure the reason is occupied and the record
\* is unchanged.  No caller is queued: a session becomes the holder only in
\* the step of its own successful acquireLock.
C19_AcquireTransition ==
    /\ [][res'.op = "acquire" =>
            /\ res'.success <=> Vacant(store)
            /\ res'.success =>
                  store' = [store EXCEPT !.is_occupied = TRUE,
                                         !.session_id = res'.sid,
                                         !.occupied_since = now,
                                         !.last_heartbeat_at = now]
            /\ ~res'.success =>
                  /\ res'.reason = "occupied"
                  /\ store' = store]_vars
    /\ [][(store'.session_id # Null /\ store'.session_id # store.session_id) =>
            /\ res'.op = "acquire"
            /\ res'.success
            /\ res'.sid = store'.session_id]_vars

\* s2's acquire at a later time than s1's last heartbeat was refused
C19_Witness ==
    /\ res.op = "acquire"
    /\ res.sid = "s2"
    /\ ~res.success
    /\ res.reason = "occupied"
    /\ store.is_occupied
    /\ store.session_id = "s1"
    /\ now > store.last_heartbeat_at
    /\ store.current_text = Str(<<"a">>)

-----------------------------------------------------------------------------
(* Properties of the Supabase store (SpecAsync) *)

\* C1 (mutual exclusion under concurrency): at no time do two different
\* session ids both hold an un-revoked success result of acquireLock.
C1_MutualExclusion == Cardinality(live) <= 1

\* C3 (no token reuse): once the release of session id T has completed, T is
\* never again the record's session_id, and no updateHeartbeat(T) or
\* releaseLock(T) returns success.
C3_NoTokenReuse ==
    [][/\ store'.session_id \notin released'
       /\ (res'.op \in {"heartbeat", "leave"} /\ res'.success) =>
             res'.sid \notin released]_vars

\* C4 (invariant I1): is_occupied is false iff session_id is null, iff
\* occupied_since is null, iff last_heartbeat_at is null.
C4_InvariantI1 ==
    /\ ~store.is_occupied <=> store.session_id = Null
    /\ ~store.is_occupied <=> store.occupied_since = NullTs
    /\ ~store.is_occupied <=> store.last_heartbeat_at = NullTs

\* C5 (forced release keeps the content): the write of a sweep's forced
\* release leaves current_text and current_drawing as the store held them
\* right before that write.
C5_SweepKeepsContent ==
    [][(res'.op = "sweep" /\ res'.success) =>
          /\ store'.current_text = store.current_text
          /\ store'.current_drawing = store.current_drawing]_vars

\* C9 (forceClear): once forceClear has written and every handler has
\* completed, with no acquire or release written after the clear, the record
\* is the cleared one: Vacant, with empty text and no drawing.
C9_ForceClear ==
    (cleared /\ \A p \in 1..MaxProcs : procs[p].pc = "idle") =>
        store = DEFAULT_STATE

\* C20 (a successful heartbeat changes last_heartbeat_at only): when an
\* updateHeartbeat returns success, the record is the one the store held
\* right before its write with last_heartbeat_at set to the time of the
\* call; is_occupied, session_id, occupied_since, current_text and
\* current_drawing are as they were.
C20_HeartbeatFrame ==
    [][\A p \in 1..MaxProcs :
          (/\ procs[p].op = "heartbeat"
           /\ procs[p].pc = "save"
           /\ procs'[p].pc = "idle") =>
              store' = [store EXCEPT !.last_heartbeat_at = procs[p].t]]_vars

\* C22 (a sweep evicts only the session it found expired): when the write
\* of a sweep's forced release vacates an Occupied record, the session that
\* loses the lease has its heartbeat age above HEARTBEAT_TIMEOUT or its
\* session age above HARD_SESSION_TIMEOUT at the moment of the write.
C22_SweepEvictsExpired ==
    [][\A p \in 1..MaxProcs :
          (/\ procs[p].op = "sweep"
           /\ procs[p].pc = "save"
           /\ procs'[p].pc = "idle"
           /\ store.is_occupied) =>
              staleReason(store, now, HEARTBEAT_TIMEOUT, HARD_SESSION_TIMEOUT)
                  # "none"]_vars

\* C11 (content handoff): the content a successful POST /api/enter returns
\* is the content the record held when the acquire was written: the text and
\* drawing of the record the acquire's write was merged into.
C11_ContentHandoff ==
    [][\A p \in 1..MaxProcs :
          (procs[p].pc = "content_load" /\ procs'[p].pc = "idle") =>
              res'.content = getRoomContent(procs[p].current)]_vars

-----------------------------------------------------------------------------
(* Properties of the Supabase store with the stale-lock timer (SpecSweeper) *)

\* C15 (eventual reclamation): with the sweep running every
\* STALE_CHECK_INTERVAL, no session is the holder for longer than
\* HARD_SESSION_TIMEOUT plus one sweep interval after its acquire, whatever
\* the holder does.
C15_Reclamation ==
    store.is_occupied =>
        now - store.occupied_since <= HARD_SESSION_TIMEOUT + STALE_CHECK_INTERVAL

-----------------------------------------------------------------------------
(* Properties of the file store under outage (SpecOutage) *)

\* C12 (fail closed on store outage): no acquireLock returns success while
\* the record in the store is Occupied, whether or not its reads succeed: a
\* failed read is not taken for a Vacant room.
C12_FailClosed ==
    [][(res'.op = "acquire" /\ res'.success) => ~store.is_occupied]_vars

\* C28 (a failed store read never destroys content): whether or not its
\* reads succeed, an acquire, a heartbeat, a refused release and a release
\* that supplies no content leave current_text and current_drawing as they
\* were.
C28_ContentSurvives ==
    [][(\/ res'.op \in {"acquire", "heartbeat"}
        \/ res'.op = "leave" /\ ~(res'.success /\ res'.content.present)) =>
           /\ store'.current_text = store.current_text
           /\ store'.current_drawing = store.current_drawing]_vars

\* C29 (success means the write is in the store): whether or not saveState
\* succeeds, after an acquireLock(s) that returns success the stored record
\* is Occupied by s, and after a releaseLock that returns success the stored
\* record is Vacant.
C29_SuccessIsStored ==
    /\ [][(res'.op = "acquire" /\ res'.success) =>
              /\ store'.is_occupied
              /\ store'.session_id = res'.sid]_vars
    /\ [][(res'.op = "leave" /\ res'.success) => Vacant(store')]_vars

-----------------------------------------------------------------------------
(* Properties of store.js called directly (SpecManager) *)

\* C13 (text bound enforced by the lease manager): after a releaseLock by
\* the session that holds the lease, whatever text it passes, the stored
\* current_text is at most MAX_TEXT_LENGTH long.
C13_TextBound ==
    [][(/\ res'.op = "release"
        /\ res'.success
        /\ store.is_occupied
        /\ res'.sid = store.session_id) =>
           Len(store'.current_text.val) <= MAX_TEXT_LENGTH]_vars

-----------------------------------------------------------------------------
(* SpecHolder: the handlers on the file store with the two timers that     *)
(* drive a session: the holder's client sends POST /api/heartbeat every     *)
(* HEARTBEAT_INTERVAL after its acquire, and the stale-lock timer fires     *)
(* every STALE_CHECK_INTERVAL.  The clock moves from one firing to the      *)
(* next.  Other callers behind the holder's address send heartbeats with a  *)
(* session id of their own making.                                          *)

\* the holder's next heartbeat after t
nextBeatAt(state, t) ==
    state.occupied_since
        + ((t - state.occupied_since) \div HEARTBEAT_INTERVAL + 1) * HEARTBEAT_INTERVAL

\* POST /api/enter, early enough for the session's hard timeout to fall
\* before the last firing
HolderEnter ==
    /\ now + HARD_SESSION_TIMEOUT + 2 * STALE_CHECK_INTERVAL <= LastSweepAt + 1
    /\ ApiEnter

\* the holder's heartbeat timer fires before the next sweep
HolderBeat ==
    /\ store.is_occupied
    /\ nextBeatAt(store, now) < nextSweepAt(now)
    /\ nextBeatAt(store, now) <= LastSweepAt
    /\ now' = nextBeatAt(store, now)
    /\ LET r == postHeartbeat(store, rateLimits, "ip1", store.session_id, now')
       IN  /\ store' = r.state
           /\ rateLimits' = r.map
           /\ res' = Result("heartbeat", store.session_id, r.success, r.reason)
    /\ UNCHANGED <<nextSid, asyncVars, admitted>>

\* the stale-lock timer fires before the holder's next heartbeat
SweepTick ==
    /\ ~(store.is_occupied /\ nextBeatAt(store, now) < nextSweepAt(now))
    /\ nextSweepAt(now) <= LastSweepAt
    /\ now' = nextSweepAt(now)
    /\ LET r == checkStaleLocks(store, HEARTBEAT_TIMEOUT, HARD_SESSION_TIMEOUT, now')
       IN  /\ store' = r.state
           /\ res' = Result("sweep", "FORCE", r.success, r.reason)
    /\ UNCHANGED <<nextSid, asyncVars, rlVars>>

\* another caller at the holder's address sends a heartbeat, within the
\* first MaxFloodSweeps sweep intervals
ForeignHeartbeat ==
    /\ now < MaxFloodSweeps * STALE_CHECK_INTERVAL
    /\ LET r == postHeartbeat(store, rateLimits, "ip1", "bogus", now)
       IN  /\ store' = r.state
           /\ rateLimits' = r.map
           /\ res' = Result("heartbeat", "bogus", r.success, r.reason)
    /\ UNCHANGED <<now, nextSid, asyncVars, admitted>>

NextHolder ==
    \/ HolderEnter
    \/ HolderBeat
    \/ SweepTick
    \/ ForeignHeartbeat

SpecHolder == Init /\ [][NextHolder]_vars

-----------------------------------------------------------------------------
(* Properties of the handlers (SpecApi) *)

\* C21 (rejected heartbeat): a heartbeat that reaches updateHeartbeat with a
\* session id that is not the holder's, or while the lease is Vacant,
\* changes nothing in the record, and POST /api/heartbeat answers both cases
\* with the same response, success:false with terminated:true.
C21_RejectedHeartbeat ==
    [][(/\ res'.op = "heartbeat"
        /\ res'.reason \notin {"400", "429"}
        /\ ~store.is_occupied \/ res'.sid # store.session_id) =>
           /\ ~res'.success
           /\ res'.reason = "terminated"
           /\ store' = store]_vars

\* s1 has left a text behind, and its next heartbeat, on the Vacant room, was
\* answered terminated
C21_Witness ==
    /\ res.op = "heartbeat"
    /\ res.sid = "s1"
    /\ ~res.success
    /\ res.reason = "terminated"
    /\ Vacant(store)
    /\ store.current_text = Str(<<"a">>)

\* C27 (a refused request has no effect on the lease): an enter or heartbeat
\* answered 429 and a heartbeat or leave answered 400 do not succeed and
\* leave the lease record as it was; every heartbeat and leave whose session
\* id is null or empty is answered 400, also on a Vacant record whose stored
\* session_id is null too; and a request answered 400 records nothing in the
\* rate limiter.
C27_RefusedNoEffect ==
    /\ [][(res'.op \in {"acquire", "heartbeat", "leave"}
             /\ res'.reason \in {"400", "429"}) =>
                /\ ~res'.success
                /\ store' = store]_vars
    /\ [][(res'.op \in {"heartbeat", "leave"} /\ res'.sid \in {Null, ""}) =>
                /\ res'.reason = "400"
                /\ ~res'.success
                /\ store' = store
                /\ rateLimits' = rateLimits]_vars

\* a leave with a null session id and content to save was answered 400 on
\* the Vacant record, which still holds what the last holder left
C27_Witness ==
    /\ res.op = "leave"
    /\ res.sid = Null
    /\ res.reason = "400"
    /\ ~res.success
    /\ Vacant(store)
    /\ store.session_id = Null
    /\ store.last_heartbeat_at = NullTs
    /\ store.current_text = Str(<<"a">>)

-----------------------------------------------------------------------------
(* Properties of a session driven by its timers (SpecHolder) *)

\* C23 (a well-behaved holder keeps the lease until the hard ceiling): a
\* holder that sends a heartbeat every HEARTBEAT_INTERVAL is never answered
\* 429 by the heartbeat rate limit and is never released with reason
\* heartbeat_timeout, whatever heartbeats other callers with the same
\* rate-limit key send.
C23_WellBehavedHolder ==
    /\ [][(/\ res'.op = "heartbeat"
           /\ store.is_occupied
           /\ res'.sid = store.session_id) => res'.reason # "429"]_vars
    /\ [][res'.op = "sweep" => res'.reason # "heartbeat_timeout"]_vars

-----------------------------------------------------------------------------
(* Properties of the rate limiter (SpecRL) *)

\* C10 (rate limiting): with N recorded attempts for a key, an attempt made
\* less than ENTRY_WINDOW after the oldest recorded one is rejected, and one
\* made ENTRY_WINDOW or more after it is admitted; and no more than N of the
\* attempts admitted for one key lie less than ENTRY_WINDOW apart.
C10_RateLimit ==
    /\ [][res'.op = "rateLimit" =>
            LET key == KeyOf(res'.sid, res'.reason)
                N == maxAllowed(res'.reason)
            IN  (key \in DOMAIN rateLimits /\ Len(rateLimits[key]) = N) =>
                    /\ now - rateLimits[key][1] < ENTRY_WINDOW => ~res'.success
                    /\ now - rateLimits[key][1] >= ENTRY_WINDOW => res'.success]_vars
    /\ [](\A key \in DOMAIN admitted :
            Len(admitted[key]) <= IF key[2] = "entry" THEN ENTRY_MAX ELSE HEARTBEAT_MAX)

\* ten heartbeats were admitted at times 1 and 2, the next one admitted came
\* exactly ENTRY_WINDOW after the first, and the one after it, less than
\* ENTRY_WINDOW after the oldest still recorded, was rejected
C10_Witness ==
    LET key == KeyOf("ip1", "heartbeat")
    IN  /\ res.op = "rateLimit"
        /\ res.reason = "heartbeat"
        /\ ~res.success
        /\ now = ENTRY_WINDOW + 1
        /\ key \in DOMAIN admitted
        /\ admitted[key] = rateLimits[key]
        /\ Len(admitted[key]) = HEARTBEAT_MAX
        /\ admitted[key][1] = 2
        /\ admitted[key][HEARTBEAT_MAX] = ENTRY_WINDOW + 1

\* C24 (only admitted attempts are recorded): a rejected rateLimit call leaves
\* the window of its key as it was, adding no timestamp; an admitted call
\* stores the window with the entries ENTRY_WINDOW old or older pruned and
\* exactly one new timestamp, the current time, at its end.
C24_OnlyAdmittedRecorded ==
    [][res'.op = "rateLimit" =>
          LET key == KeyOf(res'.sid, res'.reason)
              old == IF key \in DOMAIN rateLimits THEN rateLimits[key] ELSE <<>>
              kept == SelectSeq(old, LAMBDA x : now - x < ENTRY_WINDOW)
          IN  IF res'.success
              THEN rateLimits'[key] = Append(kept, now)
              ELSE /\ key \in DOMAIN rateLimits
                   /\ rateLimits'[key] = rateLimits[key]]_vars

\* a sixth entry attempt, made at time 2 after five admitted at time 1, was
\* rejected and the window still holds the five
C24_Witness ==
    LET key == KeyOf("ip1", "entry")
    IN  /\ res.op = "rateLimit"
        /\ res.reason = "entry"
        /\ ~res.success
        /\ now = 2
        /\ key \in DOMAIN rateLimits
        /\ rateLimits[key] = <<1, 1, 1, 1, 1>>

\* C26 (the periodic cleanup is invisible): every rateLimit call gets the
\* answer the limiter would give had the cleanup never run, that is the
\* answer decided by the log of admitted attempts, which the cleanup never
\* touches; and a cleanup run only deletes the keys with no timestamp less
\* than ENTRY_WINDOW old and drops the older timestamps of the other keys.
C26_CleanupInvisible ==
    /\ [][res'.op = "rateLimit" =>
            LET key == <<res'.sid, res'.reason>>
                log == IF key \in DOMAIN admitted THEN admitted[key] ELSE <<>>
                N == IF res'.reason = "entry" THEN ENTRY_MAX ELSE HEARTBEAT_MAX
            IN  res'.success <=>
                    Len(SelectSeq(log, LAMBDA x : now - x < ENTRY_WINDOW)) < N]_vars
    /\ [][res'.op = "cleanup" =>
            /\ DOMAIN rateLimits' \subseteq DOMAIN rateLimits
            /\ \A key \in DOMAIN rateLimits :
                  LET valid == SelectSeq(rateLimits[key],
                                         LAMBDA x : now - x < ENTRY_WINDOW)
                  IN  IF valid = <<>>
                      THEN key \notin DOMAIN rateLimits'
                      ELSE /\ key \in DOMAIN rateLimits'
                           /\ rateLimits'[key] = valid]_vars

\* after entry attempts at 1 and 2 and a heartbeat at 1, a cleanup at
\* ENTRY_WINDOW + 1 has deleted the heartbeat key and the entry attempts
\* made at 1; the entry attempt that follows is admitted
C26_Witness ==
    /\ res.op = "rateLimit"
    /\ res.reason = "entry"
    /\ res.success
    /\ now = ENTRY_WINDOW + 1
    /\ <<"ip1", "heartbeat">> \in DOMAIN admitted
    /\ <<"ip1", "heartbeat">> \notin DOMAIN rateLimits
    /\ rateLimits[<<"ip1", "entry">>] = <<2, 2, ENTRY_WINDOW + 1>>
    /\ admitted[<<"ip1", "entry">>] = <<2, 2, ENTRY_WINDOW + 1>>

-----------------------------------------------------------------------------
(* Properties of the rate limiter's keys (SpecKeys) *)

\* C25 (windows are independent per address and action class): a call
\* rateLimit(ip, action) leaves the window of every other (ip, action) pair
\* as it was, creates no other key, and its answer is decided by the window
\* of its own pair alone: admitted exactly when that window holds fewer than
\* the class limit of timestamps less than ENTRY_WINDOW old.
C25_IndependentWindows ==
    [][res'.op = "rateLimit" =>
          LET key == <<res'.sid, res'.reason>>
              own == IF key \in DOMAIN rateLimits THEN rateLimits[key] ELSE <<>>
              N == IF res'.reason = "entry" THEN ENTRY_MAX ELSE HEARTBEAT_MAX
          IN  /\ DOMAIN rateLimits' = DOMAIN rateLimits \cup {key}
              /\ \A k \in DOMAIN rateLimits \ {key} : rateLimits'[k] = rateLimits[k]
              /\ res'.success <=>
                    Len(SelectSeq(own, LAMBDA x : now - x < ENTRY_WINDOW)) < N]_vars

\* ip1 has used up its entry quota and sent heartbeats, ip2 has used up its
\* heartbeat quota; ip2's first entry attempt is admitted
C25_Witness ==
    /\ res.op = "rateLimit"
    /\ res.sid = "ip2"
    /\ res.reason = "entry"
    /\ res.success
    /\ now = 1
    /\ DOMAIN rateLimits = KeyIps \X Actions
    /\ Len(rateLimits[<<"ip1", "entry">>]) = ENTRY_MAX
    /\ Len(rateLimits[<<"ip2", "heartbeat">>]) = HEARTBEAT_MAX
    /\ rateLimits[<<"ip2", "entry">>] = <<1>>

=============================================================================
